---- MODULE Spec2Model ----
(***************************************************************************)
(* Model of src/src/create_curated_reference.py: the curated flat          *)
(* reference builder (validate_compatibility, build_reference_matrix,      *)
(* locate_files, main).                                                    *)
(*                                                                         *)
(* Numbers are fixed-point integers in units of 1e-4 (Scale units = 1.0),  *)
(* so that the 1e-4 clip floor of the weight is 1 unit.  A float that is   *)
(* NaN is the empty tuple <<>>, a defined float v is the 1-tuple <<v>>.    *)
(* Chromosome names are tuples of characters so that the "chr" prefix test *)
(* of normalize_chrom is computed, not assumed.                            *)
(***************************************************************************)
EXTENDS Integers, Sequences, FiniteSets, TLC

VARIABLES
    \* ---- build_reference_matrix ----
    file_dict,            \* ordered mapping sample -> file (a sequence, key order)
    inclusion_map,        \* sample index -> allow-list; absent keys are not in DOMAIN
    pc,                   \* position inside build_reference_matrix
    template_df,          \* bins of the template (first sample)
    template_chroms,      \* normalized chromosome vector of the template
    mat_log2,             \* n_bins x n_samples, cells NaN or <<v>>
    mat_depth,            \* n_bins x n_samples, cells NaN or <<v>>
    valid_samples_count,
    i,                    \* loop index (1-based) of the loading loop
    outcome,              \* per processed sample: what its iteration did
    ref_log2, ref_depth, ref_spread,   \* per-bin reduced vectors
    fallback_mask,        \* per-bin: reduction gave NaN for log2
    final_cnv,            \* the returned table (per-bin records) or <<>>
    raised,               \* exception that left build_reference_matrix, or "none"
    \* ---- main ----
    mpc,                  \* position inside main
    input_isdir,          \* os.path.isdir(args.input)
    disk,                 \* per configured sample: what locate_files can find
    targets_map, antitargets_map,
    ref_targets, ref_antitargets,
    output_written,       \* ref_targets.write(args.output) has run
    exit_status           \* process exit status, or -1 while running

bvars == <<file_dict, inclusion_map, pc, template_df, template_chroms, mat_log2,
           mat_depth, valid_samples_count, i, outcome, ref_log2, ref_depth,
           ref_spread, fallback_mask, final_cnv, raised>>
mvars == <<mpc, input_isdir, disk, targets_map, antitargets_map, ref_targets,
           ref_antitargets, output_written, exit_status>>
vars == <<bvars, mvars>>

-----------------------------------------------------------------------------
(* Bounds and numeric constants *)

\* largest number of samples in a file_dict / configured in the map
MaxSamples == 2

\* fixed-point units per 1.0 (reciprocal of the 1e-4 clip floor)
Scale == 10000
\* np.maximum(ref_spread, 1e-4)
SpreadFloor == 1
\* fallback depth when no bin has a defined depth (1.0)
DefaultDepth == 10000
\* fallback spread when no bin has a defined spread (0.1)
DefaultSpread == 1000

-----------------------------------------------------------------------------
(* Floats with NaN *)

NaN == <<>>
Val(v) == <<v>>
IsNaN(x) == x = NaN
Num(x) == x[1]

RECURSIVE SumSeq(_)
SumSeq(s) == IF s = <<>> THEN 0 ELSE Head(s) + SumSeq(Tail(s))

RECURSIVE IsqrtIter(_, _, _)
IsqrtIter(lo, hi, v) ==
    IF lo >= hi THEN lo
    ELSE LET mid == (lo + hi + 1) \div 2
         IN  IF mid * mid <= v THEN IsqrtIter(mid, hi, v)
                               ELSE IsqrtIter(lo, mid - 1, v)

\* floor of the square root (np.sqrt rounded to the fixed-point grid)
Isqrt(v) == IsqrtIter(0, IF v < 46340 THEN v ELSE 46340, v)

\* the defined (non-NaN) values of a sequence of cells, in order
Defined(cells) == SelectSeq(cells, LAMBDA c : ~IsNaN(c))
Values(cells) == [k \in 1..Len(Defined(cells)) |-> Num(Defined(cells)[k])]

\* np.nanmean over one row / one vector: NaN when every cell is NaN
nanmean(cells) ==
    LET xs == Values(cells)
    IN  IF Len(xs) = 0 THEN NaN ELSE Val(SumSeq(xs) \div Len(xs))

\* np.nanstd (default ddof = 0): population standard deviation of the
\* non-NaN cells, NaN only when every cell is NaN; one value gives 0
nanstd(cells) ==
    LET xs == Values(cells)
        n  == Len(xs)
        m  == SumSeq(xs) \div n
        sq == [k \in 1..n |-> (xs[k] - m) * (xs[k] - m)]
    IN  IF n = 0 THEN NaN ELSE Val(Isqrt(SumSeq(sq) \div n))

-----------------------------------------------------------------------------
(* Chromosome names *)

Chr(id) == <<"c", "h", "r", id>>
Bare(id) == <<id>>

\* normalize_chrom: s if s.startswith("chr") else "chr" + s
normalize_chrom(name) ==
    IF Len(name) >= 3 /\ SubSeq(name, 1, 3) = <<"c", "h", "r">>
    THEN name
    ELSE <<"c", "h", "r">> \o name

-----------------------------------------------------------------------------
(* Coverage files (.cnn) as cnvlib.read sees them *)

Bin(c, s, e) == [chromosome |-> c, start |-> s, end |-> e]

\* bin layouts: the reference kit, and three kits that differ from it
LayoutRef   == <<Bin(Bare("1"), 0, 100), Bin(Bare("2"), 0, 100), Bin(Chr("3"), 0, 100)>>
LayoutShort == <<Bin(Bare("1"), 0, 100), Bin(Chr("3"), 0, 100)>>
LayoutShift == <<Bin(Bare("1"), 10, 100), Bin(Bare("2"), 0, 100), Bin(Chr("3"), 0, 100)>>
LayoutEnd   == <<Bin(Bare("1"), 0, 100), Bin(Bare("2"), 0, 100), Bin(Chr("3"), 0, 150)>>
Layouts == {LayoutRef, LayoutShort, LayoutShift, LayoutEnd}

\* per-bin raw values (log2 in 1e-4 units, depth in 1e-4 units)
Log2Profiles  == <<  <<2000, -4000, 6000>>,  <<-2000, -4000, 1000>>  >>
DepthProfiles == <<  <<300000, 500000, 400000>>,  <<100000, 500000, 200000>>  >>

\* readable = cnvlib.read returns (the path exists and parses);
\* depth_kind: "numeric" (a float column), "absent" (no depth column),
\* "text" (a depth column holding a non-numeric token, read as objects)
DataFile(layout, p, kind) ==
    [readable |-> TRUE, bins |-> layout,
     log2 |-> SubSeq(Log2Profiles[p], 1, Len(layout)),
     depth_kind |-> kind,
     depth |-> IF kind = "numeric" THEN SubSeq(DepthProfiles[p], 1, Len(layout)) ELSE <<>>]
UnreadableFile ==
    [readable |-> FALSE, bins |-> <<>>, log2 |-> <<>>, depth_kind |-> "absent", depth |-> <<>>]

GoodFiles == {DataFile(LayoutRef, p, "numeric") : p \in 1..2}
BadFiles ==
    {UnreadableFile, DataFile(LayoutRef, 1, "absent"), DataFile(LayoutRef, 1, "text")}
    \cup {DataFile(l, 1, "numeric") : l \in Layouts \ {LayoutRef}}

\* an inclusion-map entry: listed = the sample is a key of the map
Listed(chroms) == [listed |-> TRUE, chroms |-> chroms]
Unlisted == [listed |-> FALSE, chroms |-> {}]
AllowAll == Listed({Chr("1"), Bare("2"), Bare("3")})
AllowEntries ==
    {Unlisted, Listed({}), Listed({Chr("1")}), Listed({Chr("1"), Bare("2")}),
     Listed({Bare("3")}), Listed({Chr("9")}), AllowAll}

\* the (file, allow-list) pairs one sample is drawn from
SampleInputs ==
    {[file |-> f, allow |-> a] : f \in GoodFiles, a \in AllowEntries}
    \cup {[file |-> f, allow |-> AllowAll] : f \in BadFiles}
    \cup {[file |-> DataFile(LayoutRef, 1, "text"), allow |-> a] :
              a \in {Listed({Chr("1")}), Listed({Chr("9")})}}

-----------------------------------------------------------------------------
(* validate_compatibility *)

\* variant: the boundary checks made before the count check
validate_compatibility_BoundsFirst(tdf, ndf) ==
    IF tdf[1].start # ndf[1].start \/ tdf[Len(tdf)].end # ndf[Len(ndf)].end
    THEN "coordinate"
    ELSE IF Len(tdf) # Len(ndf) THEN "bin_count" ELSE "ok"

\* "ok" = returns None; "bin_count" / "coordinate" = the ValueError raised
validate_compatibility(tdf, ndf) ==
    IF Len(tdf) # Len(ndf) THEN "bin_count"
    ELSE IF tdf[1].start # ndf[1].start \/ tdf[Len(tdf)].end # ndf[Len(ndf)].end
         THEN "coordinate"
         ELSE "ok"

-----------------------------------------------------------------------------
(* build_reference_matrix: the pieces *)

\* np.full((n_bins, n_samples), np.nan)
NaNMatrix(n_bins, n_samples) == [b \in 1..n_bins |-> [s \in 1..n_samples |-> NaN]]

TemplateChroms(tdf) == [b \in 1..Len(tdf) |-> normalize_chrom(tdf[b].chromosome)]

\* set(normalize_chrom(c) for c in inclusion_map.get(sample_id, []))
Allowed(imap, sid) ==
    IF sid \in DOMAIN imap THEN {normalize_chrom(c) : c \in imap[sid]} ELSE {}

\* np.isin(template_chroms, list(allowed))
KeepMask(tchroms, allowed) == [b \in DOMAIN tchroms |-> tchroms[b] \in allowed]

\* mat[keep_mask, s] = raw[keep_mask]
Inject(mat, s, keep, raw) ==
    [b \in DOMAIN mat |-> IF keep[b] THEN [mat[b] EXCEPT ![s] = Val(raw[b])] ELSE mat[b]]

\* what one iteration of the loading loop does, statement by statement; the
\* first statement that raises ends the iteration in the except clause
\* (a non-numeric depth column raises only when a value of it is assigned,
\* that is when the mask keeps at least one bin)
SampleOutcome(tdf, tchroms, file, allowed) ==
    IF ~file.readable THEN "read_error"
    ELSE IF validate_compatibility(tdf, file.bins) # "ok"
         THEN validate_compatibility(tdf, file.bins)
    ELSE IF allowed = {} THEN "skipped"
    ELSE IF file.depth_kind = "absent" THEN "missing_column"
    ELSE IF file.depth_kind = "text" /\ \E b \in DOMAIN tchroms : KeepMask(tchroms, allowed)[b]
         THEN "depth_inject_error"
    ELSE "loaded"

\* variant: valid_samples_count incremented before the empty-allow-list skip
LoopStep_CountsSkipped(st, tdf, tchroms, file, allowed, s) ==
    LET o    == SampleOutcome(tdf, tchroms, file, allowed)
        keep == KeepMask(tchroms, allowed)
    IN  [log2    |-> IF o \in {"loaded", "depth_inject_error"}
                     THEN Inject(st.log2, s, keep, file.log2) ELSE st.log2,
         depth   |-> IF o = "loaded"
                     THEN Inject(st.depth, s, keep, file.depth) ELSE st.depth,
         valid   |-> IF o \in {"loaded", "skipped"} THEN st.valid + 1 ELSE st.valid,
         outcome |-> Append(st.outcome, o)]

\* the loop body on the loop state st = [log2, depth, valid, outcome]
LoopStep(st, tdf, tchroms, file, allowed, s) ==
    LET o    == SampleOutcome(tdf, tchroms, file, allowed)
        keep == KeepMask(tchroms, allowed)
    IN  [log2    |-> IF o \in {"loaded", "depth_inject_error"}
                     THEN Inject(st.log2, s, keep, file.log2) ELSE st.log2,
         depth   |-> IF o = "loaded"
                     THEN Inject(st.depth, s, keep, file.depth) ELSE st.depth,
         valid   |-> IF o = "loaded" THEN st.valid + 1 ELSE st.valid,
         outcome |-> Append(st.outcome, o)]

\* row-wise reductions
RowMean(mat) == [b \in DOMAIN mat |-> nanmean(mat[b])]
RowStd(mat)  == [b \in DOMAIN mat |-> nanstd(mat[b])]

FallbackMask(rl) == [b \in DOMAIN rl |-> IsNaN(rl[b])]

GlobalMeanDepth(rd) ==
    IF IsNaN(nanmean(rd)) THEN Val(DefaultDepth) ELSE nanmean(rd)
SafeSpread(rs) ==
    IF IsNaN(nanmean(rs)) THEN Val(DefaultSpread) ELSE nanmean(rs)

\* step 5: the three vectors after the flat fallback
FlatFallback(rl, rd, rs) ==
    LET fm == FallbackMask(rl)
    IN  IF \E b \in DOMAIN rl : fm[b]
        THEN [log2   |-> [b \in DOMAIN rl |-> IF fm[b] THEN Val(0) ELSE rl[b]],
              depth  |-> [b \in DOMAIN rd |-> IF fm[b] THEN GlobalMeanDepth(rd) ELSE rd[b]],
              spread |-> [b \in DOMAIN rs |->
                            IF fm[b] \/ IsNaN(rs[b]) THEN SafeSpread(rs) ELSE rs[b]]]
        ELSE [log2 |-> rl, depth |-> rd, spread |-> rs]

\* 1.0 / np.maximum(spread, 1e-4) ** 2, as an exact fraction num/den
Weight(spread) ==
    IF IsNaN(spread) THEN NaN
    ELSE LET c == IF Num(spread) > SpreadFloor THEN Num(spread) ELSE SpreadFloor
         IN  Val([num |-> Scale * Scale, den |-> c * c])

\* step 6: the template's bins with the four computed columns
Construct(tdf, rl, rd, rs) ==
    [b \in DOMAIN tdf |->
        [chromosome |-> tdf[b].chromosome, start |-> tdf[b].start, end |-> tdf[b].end,
         log2 |-> rl[b], depth |-> rd[b], spread |-> rs[b], weight |-> Weight(rs[b])]]

-----------------------------------------------------------------------------
(* build_reference_matrix as a whole (used by main) *)

RECURSIVE RunLoop(_, _, _, _, _, _)
RunLoop(st, tdf, tchroms, fd, imap, s) ==
    IF s > Len(fd) THEN st
    ELSE RunLoop(LoopStep(st, tdf, tchroms, fd[s].file, Allowed(imap, fd[s].id), s),
                 tdf, tchroms, fd, imap, s + 1)

\* [raised |-> "none", table |-> ...] on return, [raised |-> e, table |-> <<>>] on raise
build_reference_matrix(fd, imap) ==
    IF Len(fd) = 0 THEN [raised |-> "empty_input", table |-> <<>>]
    ELSE IF ~fd[1].file.readable THEN [raised |-> "template_read_error", table |-> <<>>]
    ELSE LET tdf == fd[1].file.bins
             st0 == [log2 |-> NaNMatrix(Len(tdf), Len(fd)),
                     depth |-> NaNMatrix(Len(tdf), Len(fd)),
                     valid |-> 0, outcome |-> <<>>]
             st  == RunLoop(st0, tdf, TemplateChroms(tdf), fd, imap, 1)
             fb  == FlatFallback(RowMean(st.log2), RowMean(st.depth), RowStd(st.log2))
         IN  IF st.valid = 0 THEN [raised |-> "no_valid_samples", table |-> <<>>]
             ELSE [raised |-> "none",
                   table |-> Construct(tdf, fb.log2, fb.depth, fb.spread)]

-----------------------------------------------------------------------------
(* build_reference_matrix step by step *)

n_bins == Len(template_df)
n_samples == Len(file_dict)

MainIdle ==
    /\ mpc = "idle" /\ input_isdir = TRUE /\ disk = <<>>
    /\ targets_map = <<>> /\ antitargets_map = <<>>
    /\ ref_targets = <<>> /\ ref_antitargets = <<>>
    /\ output_written = FALSE /\ exit_status = -1

BuildIdle ==
    /\ file_dict = <<>> /\ inclusion_map = <<>> /\ pc = "idle"
    /\ template_df = <<>> /\ template_chroms = <<>>
    /\ mat_log2 = <<>> /\ mat_depth = <<>> /\ valid_samples_count = 0 /\ i = 0
    /\ outcome = <<>> /\ ref_log2 = <<>> /\ ref_depth = <<>> /\ ref_spread = <<>>
    /\ fallback_mask = <<>> /\ final_cnv = <<>> /\ raised = "none"

\* a call build_reference_matrix(file_dict, inclusion_map) on entry
Init ==
    /\ \E n \in 0..MaxSamples : \E ins \in [1..n -> SampleInputs] :
         /\ file_dict = [k \in 1..n |-> [id |-> k, file |-> ins[k].file]]
         /\ inclusion_map = [k \in {j \in 1..n : ins[j].allow.listed} |-> ins[k].allow.chroms]
    /\ pc = "entry"
    /\ template_df = <<>> /\ template_chroms = <<>>
    /\ mat_log2 = <<>> /\ mat_depth = <<>> /\ valid_samples_count = 0 /\ i = 0
    /\ outcome = <<>> /\ ref_log2 = <<>> /\ ref_depth = <<>> /\ ref_spread = <<>>
    /\ fallback_mask = <<>> /\ final_cnv = <<>> /\ raised = "none"
    /\ MainIdle

Raise(e) ==
    /\ pc' = "raised" /\ raised' = e
    /\ UNCHANGED <<file_dict, inclusion_map, template_df, template_chroms, mat_log2,
                   mat_depth, valid_samples_count, i, outcome, ref_log2, ref_depth,
                   ref_spread, fallback_mask, final_cnv, mvars>>

\* if not file_dict: raise ValueError
EmptyInput ==
    /\ pc = "entry" /\ n_samples = 0
    /\ Raise("empty_input")

\* cnvlib.read of the first sample raises, outside any try
TemplateReadFails ==
    /\ pc = "entry" /\ n_samples > 0 /\ ~file_dict[1].file.readable
    /\ Raise("template_read_error")

\* steps 1-2: template, matrices, template_chroms, valid_samples_count = 0
LoadTemplate ==
    /\ pc = "entry" /\ n_samples > 0 /\ file_dict[1].file.readable
    /\ template_df' = file_dict[1].file.bins
    /\ template_chroms' = TemplateChroms(file_dict[1].file.bins)
    /\ mat_log2' = NaNMatrix(Len(file_dict[1].file.bins), n_samples)
    /\ mat_depth' = NaNMatrix(Len(file_dict[1].file.bins), n_samples)
    /\ valid_samples_count' = 0
    /\ i' = 1
    /\ pc' = "loop"
    /\ UNCHANGED <<file_dict, inclusion_map, outcome, ref_log2, ref_depth, ref_spread,
                   fallback_mask, final_cnv, raised, mvars>>

\* one iteration of "for i, sample_id in enumerate(sample_ids)"
ProcessSample ==
    /\ pc = "loop" /\ i <= n_samples
    /\ LET st == LoopStep([log2 |-> mat_log2, depth |-> mat_depth,
                           valid |-> valid_samples_count, outcome |-> outcome],
                          template_df, template_chroms, file_dict[i].file,
                          Allowed(inclusion_map, file_dict[i].id), i)
       IN  /\ mat_log2' = st.log2
           /\ mat_depth' = st.depth
           /\ valid_samples_count' = st.valid
           /\ outcome' = st.outcome
    /\ i' = i + 1
    /\ UNCHANGED <<file_dict, inclusion_map, pc, template_df, template_chroms, ref_log2,
                   ref_depth, ref_spread, fallback_mask, final_cnv, raised, mvars>>

\* if valid_samples_count == 0: raise RuntimeError
NoValidSamples ==
    /\ pc = "loop" /\ i > n_samples /\ valid_samples_count = 0
    /\ Raise("no_valid_samples")

\* step 4: row-wise nanmean / nanstd, and the fallback mask
Reduce ==
    /\ pc = "loop" /\ i > n_samples /\ valid_samples_count > 0
    /\ ref_log2' = RowMean(mat_log2)
    /\ ref_depth' = RowMean(mat_depth)
    /\ ref_spread' = RowStd(mat_log2)
    /\ fallback_mask' = FallbackMask(RowMean(mat_log2))
    /\ pc' = "fallback"
    /\ UNCHANGED <<file_dict, inclusion_map, template_df, template_chroms, mat_log2,
                   mat_depth, valid_samples_count, i, outcome, final_cnv, raised, mvars>>

\* step 5: if n_fallback > 0: substitute
Fallback ==
    /\ pc = "fallback"
    /\ LET fb == FlatFallback(ref_log2, ref_depth, ref_spread)
       IN  /\ ref_log2' = fb.log2
           /\ ref_depth' = fb.depth
           /\ ref_spread' = fb.spread
    /\ pc' = "construct"
    /\ UNCHANGED <<file_dict, inclusion_map, template_df, template_chroms, mat_log2,
                   mat_depth, valid_samples_count, i, outcome, fallback_mask, final_cnv,
                   raised, mvars>>

\* step 6 and return
Return ==
    /\ pc = "construct"
    /\ final_cnv' = Construct(template_df, ref_log2, ref_depth, ref_spread)
    /\ pc' = "returned"
    /\ UNCHANGED <<file_dict, inclusion_map, template_df, template_chroms, mat_log2,
                   mat_depth, valid_samples_count, i, outcome, ref_log2, ref_depth,
                   ref_spread, fallback_mask, raised, mvars>>

Next ==
    \/ EmptyInput
    \/ TemplateReadFails
    \/ LoadTemplate
    \/ ProcessSample
    \/ NoValidSamples
    \/ Reduce
    \/ Fallback
    \/ Return

Spec == Init /\ [][Next]_vars

-----------------------------------------------------------------------------
(* locate_files and main *)

\* the inclusion map compiled into the script: every configured sample has a
\* non-empty list of "chr"-prefixed names
SAMPLE_CHROMOSOME_MAP ==
    [k \in 1..MaxSamples |->
        IF k % 2 = 1 THEN {Chr("1"), Chr("2"), Chr("3")} ELSE {Chr("2"), Chr("3")}]

\* a path: present = os.path.exists(path); file = what cnvlib.read finds there
Path(f) == [present |-> TRUE, file |-> f]
NoPath == [present |-> FALSE, file |-> UnreadableFile]
Pair(t, a) == [t |-> t, a |-> a]
Good1 == DataFile(LayoutRef, 1, "numeric")
Good2 == DataFile(LayoutRef, 2, "numeric")

NestedPairs == {Pair(NoPath, NoPath), Pair(Path(Good1), NoPath), Pair(Path(Good2), Path(Good1))}
FlatPairs ==
    {Pair(NoPath, NoPath), Pair(Path(Good1), NoPath), Pair(Path(Good1), Path(Good2)),
     Pair(Path(Good1), Path(DataFile(LayoutRef, 1, "text"))),
     Pair(Path(Good1), Path(UnreadableFile)),
     Pair(Path(UnreadableFile), Path(Good1)),
     Pair(Path(DataFile(LayoutShort, 1, "numeric")), Path(Good1))}
DiskEntries == {[nested |-> n, flat |-> f] : n \in NestedPairs, f \in FlatPairs}

\* the (t_path, a_path) locate_files settles on for one sample
Located(d) == IF d.nested.t.present /\ d.nested.a.present THEN d.nested ELSE d.flat
Found(d) == Located(d).t.present /\ Located(d).a.present

\* the found samples, in the order of sample_ids
FoundIds(dsk) == SelectSeq([k \in 1..Len(dsk) |-> k], LAMBDA k : Found(dsk[k]))

\* locate_files: (targets, antitargets), both keyed by the found samples
locate_files(dsk) ==
    [targets     |-> [j \in 1..Len(FoundIds(dsk)) |->
                        [id |-> FoundIds(dsk)[j], file |-> Located(dsk[FoundIds(dsk)[j]]).t.file]],
     antitargets |-> [j \in 1..Len(FoundIds(dsk)) |->
                        [id |-> FoundIds(dsk)[j], file |-> Located(dsk[FoundIds(dsk)[j]]).a.file]]]

\* genomic sort key of a row: chromosome (normalized, by its last character),
\* then start, then end
RowBefore(r1, r2) ==
    LET c1 == normalize_chrom(r1.chromosome)[4]
        c2 == normalize_chrom(r2.chromosome)[4]
        Rank(c) == IF c = "1" THEN 1 ELSE IF c = "2" THEN 2 ELSE 3
    IN  \/ Rank(c1) < Rank(c2)
        \/ Rank(c1) = Rank(c2) /\ r1.start < r2.start
        \/ Rank(c1) = Rank(c2) /\ r1.start = r2.start /\ r1.end <= r2.end

RECURSIVE InsertRow(_, _)
InsertRow(sorted, r) ==
    IF sorted = <<>> THEN <<r>>
    ELSE IF RowBefore(Head(sorted), r) THEN <<Head(sorted)>> \o InsertRow(Tail(sorted), r)
    ELSE <<r>> \o sorted

RECURSIVE SortRows(_)
SortRows(rows) == IF rows = <<>> THEN <<>> ELSE InsertRow(SortRows(Tail(rows)), Head(rows))

\* ref_targets.add(ref_antitargets); ref_targets.sort()
MergeSorted(t, a) == SortRows(t \o a)

InitMain ==
    /\ BuildIdle
    /\ mpc = "start"
    /\ input_isdir \in BOOLEAN
    /\ disk \in [1..MaxSamples -> DiskEntries]
    /\ targets_map = <<>> /\ antitargets_map = <<>>
    /\ ref_targets = <<>> /\ ref_antitargets = <<>>
    /\ output_written = FALSE /\ exit_status = -1

Exit(code) ==
    /\ mpc' = "exited" /\ exit_status' = code

\* if not os.path.isdir(args.input): sys.exit(1)
CheckInputDir ==
    /\ mpc = "start"
    /\ IF input_isdir THEN mpc' = "locate" /\ exit_status' = exit_status ELSE Exit(1)
    /\ UNCHANGED <<bvars, input_isdir, disk, targets_map, antitargets_map, ref_targets,
                   ref_antitargets, output_written>>

\* locate_files; if not targets_map: sys.exit(1)
LocateFiles ==
    /\ mpc = "locate"
    /\ targets_map' = locate_files(disk).targets
    /\ antitargets_map' = locate_files(disk).antitargets
    /\ IF Len(locate_files(disk).targets) = 0 THEN Exit(1)
       ELSE mpc' = "targets" /\ exit_status' = exit_status
    /\ UNCHANGED <<bvars, input_isdir, disk, ref_targets, ref_antitargets, output_written>>

\* try: ref_targets = build_reference_matrix(targets_map, ...) except: sys.exit(1)
ProcessTargets ==
    /\ mpc = "targets"
    /\ LET r == build_reference_matrix(targets_map, SAMPLE_CHROMOSOME_MAP)
       IN  IF r.raised = "none"
           THEN ref_targets' = r.table /\ mpc' = "antitargets" /\ exit_status' = exit_status
           ELSE ref_targets' = ref_targets /\ Exit(1)
    /\ UNCHANGED <<bvars, input_isdir, disk, targets_map, antitargets_map,
                   ref_antitargets, output_written>>

\* variant: the except clause of the antitarget build logs but does not exit
ProcessAntitargets_NoExit ==
    /\ mpc = "antitargets"
    /\ LET r == build_reference_matrix(antitargets_map, SAMPLE_CHROMOSOME_MAP)
       IN  ref_antitargets' = r.table
    /\ mpc' = "save"
    /\ UNCHANGED <<bvars, input_isdir, disk, targets_map, antitargets_map,
                   ref_targets, output_written, exit_status>>

\* try: ref_antitargets = build_reference_matrix(antitargets_map, ...) except: sys.exit(1)
ProcessAntitargets ==
    /\ mpc = "antitargets"
    /\ LET r == build_reference_matrix(antitargets_map, SAMPLE_CHROMOSOME_MAP)
       IN  IF r.raised = "none"
           THEN ref_antitargets' = r.table /\ mpc' = "save" /\ exit_status' = exit_status
           ELSE ref_antitargets' = ref_antitargets /\ Exit(1)
    /\ UNCHANGED <<bvars, input_isdir, disk, targets_map, antitargets_map,
                   ref_targets, output_written>>

\* add, sort, write(args.output); the process then ends normally
MergeAndSave ==
    /\ mpc = "save"
    /\ ref_targets' = MergeSorted(ref_targets, ref_antitargets)
    /\ output_written' = TRUE
    /\ Exit(0)
    /\ UNCHANGED <<bvars, input_isdir, disk, targets_map, antitargets_map, ref_antitargets>>

NextMain ==
    \/ CheckInputDir
    \/ LocateFiles
    \/ ProcessTargets
    \/ ProcessAntitargets
    \/ MergeAndSave

SpecMain == InitMain /\ [][NextMain]_vars

-----------------------------------------------------------------------------
(* Vocabulary of the properties, stated on the inputs of the call *)

Bins == 1..Len(template_df)
Samples == 1..Len(file_dict)

\* a chromosome name without its optional "chr" prefix
ChromId(name) ==
    IF Len(name) > 3 /\ name[1] = "c" /\ name[2] = "h" /\ name[3] = "r"
    THEN SubSeq(name, 4, Len(name))
    ELSE name

\* the allow-list of sample s names the chromosome of the template's bin b
AllowedAt(b, s) ==
    /\ file_dict[s].id \in DOMAIN inclusion_map
    /\ \E c \in inclusion_map[file_dict[s].id] : ChromId(c) = ChromId(template_df[b].chromosome)

Processed(s) == s \in DOMAIN outcome
Failed(s) ==
    Processed(s) /\ outcome[s] \in {"read_error", "bin_count", "coordinate",
                                    "missing_column", "depth_inject_error"}

\* sample s is trusted at bin b: processed without failure and allowed there
Trusted(b, s) == Processed(s) /\ outcome[s] = "loaded" /\ AllowedAt(b, s)
TrustedSamples(b) == {s \in Samples : Trusted(b, s)}

\* the loading loop has run to its end
LoopDone ==
    \/ pc = "loop" /\ i > n_samples
    \/ pc \in {"fallback", "construct", "returned"}
    \/ pc = "raised" /\ raised = "no_valid_samples"

\* the trusted raw values of bin b, as a row with NaN elsewhere
TrustedLog2(b) ==
    [s \in Samples |-> IF Trusted(b, s) THEN Val(file_dict[s].file.log2[b]) ELSE NaN]
TrustedDepth(b) ==
    [s \in Samples |-> IF Trusted(b, s) THEN Val(file_dict[s].file.depth[b]) ELSE NaN]

\* sample standard deviation (n - 1 in the denominator): undefined below 2 values
SampleStd(cells) ==
    LET xs == Values(cells)
        n  == Len(xs)
        m  == SumSeq(xs) \div n
        sq == [k \in 1..n |-> (xs[k] - m) * (xs[k] - m)]
    IN  IF n < 2 THEN NaN ELSE Val(Isqrt(SumSeq(sq) \div (n - 1)))

\* the global fallback values as the specification defines them
SpecFallbackDepth ==
    LET d == [b \in Bins |-> nanmean(TrustedDepth(b))]
    IN  IF IsNaN(nanmean(d)) THEN Val(DefaultDepth) ELSE nanmean(d)
SpecFallbackSpread ==
    LET sp == [b \in Bins |-> SampleStd(TrustedLog2(b))]
    IN  IF IsNaN(nanmean(sp)) THEN Val(DefaultSpread) ELSE nanmean(sp)

\* sample s can be loaded: readable, same bins as the first sample when that
\* one is readable, a non-empty allow-list, and a depth column that is numeric
\* (or non-numeric but never assigned because no bin is allowed)
Eligible(s) ==
    /\ file_dict[s].file.readable
    /\ file_dict[1].file.readable =>
          validate_compatibility(file_dict[1].file.bins, file_dict[s].file.bins) = "ok"
    /\ file_dict[s].id \in DOMAIN inclusion_map
    /\ inclusion_map[file_dict[s].id] # {}
    /\ \/ file_dict[s].file.depth_kind = "numeric"
       \/ /\ file_dict[s].file.depth_kind = "text"
          /\ file_dict[1].file.readable
          /\ \A b \in DOMAIN file_dict[1].file.bins :
                \A c \in inclusion_map[file_dict[s].id] :
                    ChromId(c) # ChromId(file_dict[1].file.bins[b].chromosome)

-----------------------------------------------------------------------------
(* Properties of build_reference_matrix *)

\* C1: in every returned table every bin has log2, depth, spread and weight
\* defined, spread > 0, and weight > 0 and finite.
C1_AllDefinedPositive ==
    pc = "returned" =>
        \A b \in Bins :
            /\ ~IsNaN(final_cnv[b].log2) /\ ~IsNaN(final_cnv[b].depth)
            /\ ~IsNaN(final_cnv[b].spread) /\ ~IsNaN(final_cnv[b].weight)
            /\ Num(final_cnv[b].spread) > 0
            /\ Num(final_cnv[b].weight).num > 0 /\ Num(final_cnv[b].weight).den > 0

\* C2: in every returned table a bin with exactly one trusted sample has the
\* global fallback spread (mean of the spreads defined before substitution,
\* or 0.1), not zero.
C2_SingleSampleSpreadIsFallback ==
    pc = "returned" =>
        \A b \in Bins :
            Cardinality(TrustedSamples(b)) = 1 =>
                /\ final_cnv[b].spread = SpecFallbackSpread
                /\ final_cnv[b].spread # Val(0)

\* C3: the failure of a single sample, the first one included, never aborts
\* the build: while some sample can be loaded, no exception leaves the call.
C3_SampleFailureNeverAborts ==
    pc = "raised" => ~(\E s \in Samples : Eligible(s))

C5_CellsExactlyTrusted ==
    LoopDone =>
        \A b \in Bins : \A s \in Samples :
            /\ mat_log2[b][s] = TrustedLog2(b)[s]
            /\ mat_depth[b][s] = TrustedDepth(b)[s]

\* C6: in every returned table a bin with zero trusted samples has
\* log2 = 0.0 exactly.
C6_UntrustedBinIsFlat ==
    pc = "returned" =>
        \A b \in Bins : TrustedSamples(b) = {} => final_cnv[b].log2 = Val(0)

\* C7: the values substituted into zero-trusted-sample bins are the means of
\* the depths / spreads defined before substitution (spread: sample standard
\* deviation, defined for bins with at least 2 trusted samples), or 1.0 / 0.1.
C7_FallbackFromDefinedOnly ==
    pc = "returned" =>
        \A b \in Bins :
            TrustedSamples(b) = {} =>
                /\ final_cnv[b].depth = SpecFallbackDepth
                /\ final_cnv[b].spread = SpecFallbackSpread

\* C10: a sample whose iteration fails at any step leaves its whole column
\* NaN in both matrices.
C10_FailedSampleLeavesNoData ==
    \A s \in Samples :
        Failed(s) => \A b \in Bins : IsNaN(mat_log2[b][s]) /\ IsNaN(mat_depth[b][s])

-----------------------------------------------------------------------------
(* Properties of validate_compatibility and main *)

\* C8: validate_compatibility raises exactly when the bin counts differ, or
\* the first starts differ, or the last ends differ, the count check coming
\* first (a count mismatch is reported as such whatever the boundaries);
\* otherwise it returns silently; it modifies neither bin sequence.
C8_ValidateCompatibility ==
    [][ (pc = "loop" /\ i <= n_samples /\ file_dict[i].file.readable) =>
          LET t == template_df
              c == file_dict[i].file.bins
              o == outcome'[i]
              countDiff == Len(t) # Len(c)
              boundDiff == t[1].start # c[1].start \/ t[Len(t)].end # c[Len(c)].end
          IN  /\ (o = "bin_count") <=> countDiff
              /\ (o = "coordinate") <=> (~countDiff /\ boundDiff)
              /\ template_df' = template_df
              /\ file_dict' = file_dict ]_vars

\* a candidate was rejected for its bin count although its first start also
\* differs from the template's
C8_Witness ==
    \E s \in DOMAIN outcome :
        /\ outcome[s] = "bin_count"
        /\ template_df[1].start # file_dict[s].file.bins[1].start

\* a sample has both of its files in its own folder, or both in the base folder
FoundSomewhere(d) ==
    \/ d.nested.t.present /\ d.nested.a.present
    \/ d.flat.t.present /\ d.flat.a.present

\* a fatal condition of main: no input directory, no coverage files, or a
\* failure of either build
Fatal ==
    \/ ~input_isdir
    \/ ~(\E k \in DOMAIN disk : FoundSomewhere(disk[k]))
    \/ build_reference_matrix(locate_files(disk).targets, SAMPLE_CHROMOSOME_MAP).raised # "none"
    \/ build_reference_matrix(locate_files(disk).antitargets, SAMPLE_CHROMOSOME_MAP).raised # "none"

\* C9: main writes the output only after both reference tables were built;
\* on any fatal condition the process ends with a non-zero status and no
\* output has been written.
C9_OutputOnlyAfterBothBuilt ==
    /\ output_written => (~Fatal /\ ref_antitargets # <<>>)
    /\ (mpc = "exited" /\ Fatal) => (exit_status > 0 /\ ~output_written)

\* the target table was built, the antitarget build failed, main has exited
C9_Witness ==
    /\ mpc = "exited" /\ exit_status = 1
    /\ ref_targets # <<>>
    /\ ~output_written

====
